---- MODULE Spec2Model ----
(***************************************************************************)
(* Model of the users REST API: the in-memory Database (a Map guarded by   *)
(* an isConnected flag, every operation resolving in a timer callback) and *)
(* the UserService built on it.                                            *)
(*                                                                         *)
(* Representation of JavaScript values:                                    *)
(*   - an object is a function whose DOMAIN is the set of its own property *)
(*     names; the spread {...a, ...b} is  b @@ a  (the later source wins); *)
(*   - a string that the code inspects (name, email) is a sequence of      *)
(*     one-character strings, so that trim(), length and the email regex   *)
(*     are computed; message texts are TLA+ strings;                       *)
(*   - an id is a natural number: uuidv4() returns the next unused number, *)
(*     0 stands for the empty string (the falsy id);                       *)
(*   - a Date is a number of milliseconds.                                 *)
(***************************************************************************)
EXTENDS Integers, Sequences, FiniteSets, TLC

\* ------------------------------------------------------------------ bounds
\* Number of operations (store or service calls) started in one behaviour.
MaxTasks == 3
\* Number of operations that may be pending at the same time.
MaxPending == 2

\* --------------------------------------------------------------- constants
\* setTimeout delays, in milliseconds.
DataDelay == 50
ConnectDelay == 100
DisconnectDelay == 50
\* Time passes in steps of the shortest delay.
TickMs == DataDelay
\* Dates are milliseconds since 2023-01-01T00:00Z: new Date('2023-01-01'),
\* new Date('2023-01-02'), and the (later) time at which the store is built.
SeedDate1 == 0
DayMs == 86400000
SeedDate2 == SeedDate1 + DayMs
StartTime == SeedDate2 + DayMs
\* Bounds of the age check and of the name length check of the service.
MinAge == 0
MaxAge == 150
MinNameLen == 2
\* Upper bound of the name length in Validator.isValidName.
MaxNameLen == 100

\* Ages are integers, and NaN, the one value of type number that no
\* comparison holds for, is kept apart from them as the value below.
NaN == 0 - 1000000

\* a < b on JavaScript numbers.
Less(a, b) == a # NaN /\ b # NaN /\ a < b

\* ------------------------------------------------------------------ values
John == <<"j", "o", "h", "n", "@", "e", "x", "a", "m", "p", "l", "e", ".", "c", "o", "m">>
Jane == <<"j", "a", "n", "e", "@", "e", "x", "a", "m", "p", "l", "e", ".", "c", "o", "m">>
JohnDoe == <<"J", "o", "h", "n", " ", "D", "o", "e">>
JaneSmith == <<"J", "a", "n", "e", " ", "S", "m", "i", "t", "h">>

IsSpace(c) == c \in {" ", "\t", "\n"}

\* String.prototype.trim
RECURSIVE TrimLeft(_)
TrimLeft(s) == IF s # <<>> /\ IsSpace(Head(s)) THEN TrimLeft(Tail(s)) ELSE s

RECURSIVE TrimRight(_)
TrimRight(s) ==
  IF s # <<>> /\ IsSpace(s[Len(s)]) THEN TrimRight(SubSeq(s, 1, Len(s) - 1)) ELSE s

Trim(s) == TrimRight(TrimLeft(s))

\* o.f === p.f for two objects, where a missing property reads undefined.
SameField(o, p, f) ==
  IF f \in DOMAIN o /\ f \in DOMAIN p THEN o[f] = p[f]
  ELSE f \notin DOMAIN o /\ f \notin DOMAIN p

\* Truthiness of a string-valued property: present and not ''.
TruthyStr(o, f) == f \in DOMAIN o /\ o[f] # <<>>

\* Outcome of a promise.
Pending == [kind |-> "pending"]
Resolved(v) == [kind |-> "resolved", value |-> v]
Rejected(msg) == [kind |-> "rejected", error |-> msg]

NotConnectedMsg == "Database not connected"
DuplicateMsg == "User with this email already exists"
NotFoundMsg == "User not found"

\* ------------------------------------------------------------ the Map
\* this.users: a sequence of [key, val] in insertion order.
MapHas(m, k) == \E i \in 1..Len(m) : m[i].key = k

MapGet(m, k) == LET i == CHOOSE i \in 1..Len(m) : m[i].key = k IN m[i].val

MapSet(m, k, v) ==
  IF MapHas(m, k)
  THEN [i \in 1..Len(m) |-> IF m[i].key = k THEN [key |-> k, val |-> v] ELSE m[i]]
  ELSE Append(m, [key |-> k, val |-> v])

MapDelete(m, k) == SelectSeq(m, LAMBDA e : e.key # k)

MapValues(m) == [i \in 1..Len(m) |-> m[i].val]

\* Array.prototype.find over the values: index of the first match, 0 if none.
FindByEmail(m, o) ==
  LET hits == {i \in 1..Len(m) : SameField(m[i].val, o, "email")}
  IN IF hits = {} THEN 0 ELSE CHOOSE i \in hits : \A j \in hits : i <= j

\* ------------------------------------------------- Database: the callbacks
\* Each operator is the body of the setTimeout callback of the operation:
\* it yields the new Map and the outcome of the returned promise.
SeedUsers ==
  << [key |-> 1, val |-> [id |-> 1, name |-> JohnDoe, email |-> John, age |-> 30,
                          createdAt |-> SeedDate1, updatedAt |-> SeedDate1]],
     [key |-> 2, val |-> [id |-> 2, name |-> JaneSmith, email |-> Jane, age |-> 25,
                          createdAt |-> SeedDate2, updatedAt |-> SeedDate2]] >>

\* Mutant: the listing empties the Map.
Database_findAllUsers_clears(m) == [users |-> <<>>, out |-> Resolved(MapValues(m))]

Database_findAllUsers(m) == [users |-> m, out |-> Resolved(MapValues(m))]

Database_findUserById(m, id) ==
  [users |-> m,
   out |-> IF MapHas(m, id) THEN Resolved([found |-> TRUE, user |-> MapGet(m, id)])
           ELSE Resolved([found |-> FALSE])]

Database_findUserByEmail(m, email) ==
  LET i == FindByEmail(m, [email |-> email])
  IN [users |-> m,
      out |-> IF i # 0 THEN Resolved([found |-> TRUE, user |-> m[i].val])
              ELSE Resolved([found |-> FALSE])]

\* Mutant: every new record gets the same id.
Database_createUser_sameId(m, userData, uuid, t) ==
  IF FindByEmail(m, userData) # 0
  THEN [users |-> m, out |-> Rejected(DuplicateMsg)]
  ELSE LET newUser == [createdAt |-> t, updatedAt |-> t] @@ userData
                        @@ [id |-> Len(SeedUsers) + 1]
       IN [users |-> MapSet(m, newUser.id, newUser), out |-> Resolved(newUser)]

\* Mutant: the email is not looked up before the record is added.
Database_createUser_noEmailCheck(m, userData, uuid, t) ==
  LET newUser == [createdAt |-> t, updatedAt |-> t] @@ userData @@ [id |-> uuid]
  IN [users |-> MapSet(m, newUser.id, newUser), out |-> Resolved(newUser)]

Database_createUser(m, userData, uuid, t) ==
  IF FindByEmail(m, userData) # 0
  THEN [users |-> m, out |-> Rejected(DuplicateMsg)]
  ELSE LET newUser == [createdAt |-> t, updatedAt |-> t] @@ userData @@ [id |-> uuid]
       IN [users |-> MapSet(m, newUser.id, newUser), out |-> Resolved(newUser)]

\* Mutant: the stored record is spread over the patch.
Database_updateUser_userWins(m, id, updateData, t) ==
  IF ~MapHas(m, id)
  THEN [users |-> m, out |-> Rejected(NotFoundMsg)]
  ELSE LET user == MapGet(m, id)
           updatedUser == [updatedAt |-> t] @@ user @@ updateData
       IN [users |-> MapSet(m, id, updatedUser), out |-> Resolved(updatedUser)]

\* Mutant: the email of the patch is not looked up.
Database_updateUser_noLookup(m, id, updateData, t) ==
  IF ~MapHas(m, id)
  THEN [users |-> m, out |-> Rejected(NotFoundMsg)]
  ELSE LET updatedUser == [updatedAt |-> t] @@ updateData @@ MapGet(m, id)
       IN [users |-> MapSet(m, id, updatedUser), out |-> Resolved(updatedUser)]

\* Mutant: the patch is merged into the record as it was seeded.
Database_updateUser_stale(m, id, updateData, t) ==
  IF ~MapHas(m, id)
  THEN [users |-> m, out |-> Rejected(NotFoundMsg)]
  ELSE LET updatedUser == [updatedAt |-> t] @@ updateData @@ MapGet(SeedUsers, id)
       IN [users |-> MapSet(m, id, updatedUser), out |-> Resolved(updatedUser)]

Database_updateUser(m, id, updateData, t) ==
  IF ~MapHas(m, id)
  THEN [users |-> m, out |-> Rejected(NotFoundMsg)]
  ELSE LET user == MapGet(m, id)
       IN IF /\ TruthyStr(updateData, "email")
             /\ ~SameField(updateData, user, "email")
             /\ FindByEmail(m, updateData) # 0
          THEN [users |-> m, out |-> Rejected(DuplicateMsg)]
          ELSE LET updatedUser == [updatedAt |-> t] @@ updateData @@ user
               IN [users |-> MapSet(m, id, updatedUser), out |-> Resolved(updatedUser)]

\* Mutant: resolves without removing the record.
Database_deleteUser_keeps(m, id) ==
  IF ~MapHas(m, id)
  THEN [users |-> m, out |-> Rejected(NotFoundMsg)]
  ELSE [users |-> m, out |-> Resolved(TRUE)]

\* Mutant: deleting a record that is not there resolves as well.
Database_deleteUser_idempotent(m, id) ==
  [users |-> MapDelete(m, id), out |-> Resolved(TRUE)]

Database_deleteUser(m, id) ==
  IF ~MapHas(m, id)
  THEN [users |-> m, out |-> Rejected(NotFoundMsg)]
  ELSE [users |-> MapDelete(m, id), out |-> Resolved(TRUE)]

Database_clearAllData(m) == [users |-> <<>>, out |-> Resolved(TRUE)]

\* --------------------------------------------------------- UserService
Ok(data, msg) == [success |-> TRUE, data |-> data, message |-> msg]
OkNoData(msg) == [success |-> TRUE, message |-> msg]
Fail(err, msg) == [success |-> FALSE, error |-> err, message |-> msg]

\* Array.prototype.join
RECURSIVE Join(_, _)
Join(msgs, sep) ==
  IF msgs = <<>> THEN ""
  ELSE IF Len(msgs) = 1 THEN msgs[1]
  ELSE msgs[1] \o sep \o Join(Tail(msgs), sep)

NameMsg == "Name must be at least 2 characters long"
EmailMsg == "Valid email is required"
AgeMsg == "Age must be a number between 0 and 150"

\* /^[^\s@]+@[^\s@]+\.[^\s@]+$/.test(email)
isValidEmail(email) ==
  \E i \in 1..Len(email), j \in 1..Len(email) :
    /\ email[i] = "@" /\ email[j] = "."
    /\ 1 < i /\ i + 1 < j /\ j < Len(email)
    /\ \A k \in 1..Len(email) : ~IsSpace(email[k]) /\ (email[k] = "@" => k = i)

\* Mutant: the age is checked first.
validateUserData_ageFirst(userData) ==
  LET e1 == IF ~TruthyStr(userData, "name") \/ Len(Trim(userData.name)) < MinNameLen
            THEN <<NameMsg>> ELSE <<>>
      e2 == IF ~TruthyStr(userData, "email") \/ ~isValidEmail(userData.email)
            THEN <<EmailMsg>> ELSE <<>>
      e3 == IF "age" \notin DOMAIN userData \/ Less(userData.age, MinAge)
               \/ Less(MaxAge, userData.age)
            THEN <<AgeMsg>> ELSE <<>>
      errors == e3 \o e1 \o e2
  IN [isValid |-> errors = <<>>, errors |-> errors]

validateUserData(userData) ==
  LET e1 == IF ~TruthyStr(userData, "name") \/ Len(Trim(userData.name)) < MinNameLen
            THEN <<NameMsg>> ELSE <<>>
      e2 == IF ~TruthyStr(userData, "email") \/ ~isValidEmail(userData.email)
            THEN <<EmailMsg>> ELSE <<>>
      e3 == IF "age" \notin DOMAIN userData \/ Less(userData.age, MinAge)
               \/ Less(MaxAge, userData.age)
            THEN <<AgeMsg>> ELSE <<>>
      errors == e1 \o e2 \o e3
  IN [isValid |-> errors = <<>>, errors |-> errors]

\* Mutant: a patch is checked like a creation payload.
validateUpdateData_requiresAll(updateData) == validateUserData(updateData)

validateUpdateData(updateData) ==
  LET e1 == IF "name" \in DOMAIN updateData /\ Len(Trim(updateData.name)) < MinNameLen
            THEN <<NameMsg>> ELSE <<>>
      e2 == IF "email" \in DOMAIN updateData /\ ~isValidEmail(updateData.email)
            THEN <<EmailMsg>> ELSE <<>>
      e3 == IF "age" \in DOMAIN updateData
               /\ (Less(updateData.age, MinAge) \/ Less(MaxAge, updateData.age))
            THEN <<AgeMsg>> ELSE <<>>
      errors == e1 \o e2 \o e3
  IN [isValid |-> errors = <<>>, errors |-> errors]

\* A service method runs until it returns an envelope, awaits a store call,
\* or lets an exception escape (its promise rejects).
Return(envelope) == [kind |-> "return", envelope |-> envelope]
Await(op, id, data) == [kind |-> "await", call |-> [op |-> op, id |-> id, data |-> data]]
Throw(msg) == [kind |-> "throw", error |-> msg]

NoData == <<>>
InvalidInput == Fail("User ID is required", "Invalid input")
UserNotFound == Fail(NotFoundMsg, "User with the specified ID does not exist")

\* The message of the catch block of each method.
CatchMsg(op) ==
  CASE op = "getAllUsers" -> "Failed to retrieve users"
    [] op = "getUserById" -> "Failed to retrieve user"
    [] op = "createUser" -> "Failed to create user"
    [] op = "updateUser" -> "Failed to update user"
    [] op = "deleteUser" -> "Failed to delete user"
    [] op = "getUserStats" -> "Failed to retrieve user statistics"

\* The part of each method before its first await.
ValidationFailed(v) == Return(Fail(Join(v.errors, ", "), "Validation failed"))

\* Mutant: the id is not checked.
UserService_requireId_begin_noCheck(c) == Await("findUserById", c.id, NoData)

\* getUserById and deleteUser: the id check, then the lookup.
UserService_requireId_begin(c) ==
  IF c.id = 0 THEN Return(InvalidInput) ELSE Await("findUserById", c.id, NoData)

\* Mutant: the payload is not validated before the email lookup.
UserService_createUser_begin_noValidation(c) ==
  Await("findUserByEmail", 0, [email |-> c.data.email])

UserService_createUser_begin(c) ==
  LET v == validateUserData(c.data)
  IN IF ~v.isValid THEN ValidationFailed(v)
     ELSE Await("findUserByEmail", 0, [email |-> c.data.email])

\* Mutant: the existence check comes first, the patch is not validated.
UserService_updateUser_begin_existenceFirst(c) ==
  IF c.id = 0 THEN Return(InvalidInput) ELSE Await("findUserById", c.id, NoData)

UserService_updateUser_begin(c) ==
  IF c.id = 0 THEN Return(InvalidInput)
  ELSE LET v == validateUpdateData(c.data)
       IN IF ~v.isValid THEN ValidationFailed(v)
          ELSE Await("findUserById", c.id, NoData)

UserService_begin(c) ==
  CASE c.op = "getAllUsers" -> Await("findAllUsers", 0, NoData)
    [] c.op = "getUserStats" -> Await("findAllUsers", 0, NoData)
    [] c.op = "getUserById" -> UserService_requireId_begin(c)
    [] c.op = "deleteUser" -> UserService_requireId_begin(c)
    [] c.op = "createUser" -> UserService_createUser_begin(c)
    [] c.op = "updateUser" -> UserService_updateUser_begin(c)

\* Sum, minimum and maximum of the ages of a listing.
RECURSIVE SumAges(_)
SumAges(list) == IF list = <<>> THEN 0 ELSE Head(list).age + SumAges(Tail(list))

MinOfAges(list) == CHOOSE a \in {list[i].age : i \in 1..Len(list)} :
                     \A i \in 1..Len(list) : a <= list[i].age
MaxOfAges(list) == CHOOSE a \in {list[i].age : i \in 1..Len(list)} :
                     \A i \in 1..Len(list) : a >= list[i].age

\* Mutant: the sum is not divided by the count.
Stats_sumAsAverage(list) ==
  [totalUsers |-> Len(list),
   averageAge |-> [num |-> SumAges(list), den |-> 1],
   youngestUser |-> IF Len(list) > 0 THEN MinOfAges(list) ELSE 0,
   oldestUser |-> IF Len(list) > 0 THEN MaxOfAges(list) ELSE 0]

\* The quotient sum / count is kept exact, as numerator and denominator.
Stats(list) ==
  [totalUsers |-> Len(list),
   averageAge |-> IF Len(list) > 0 THEN [num |-> SumAges(list), den |-> Len(list)]
                  ELSE [num |-> 0, den |-> 1],
   youngestUser |-> IF Len(list) > 0 THEN MinOfAges(list) ELSE 0,
   oldestUser |-> IF Len(list) > 0 THEN MaxOfAges(list) ELSE 0]

\* Mutant: no try/catch, the error escapes the method.
Catch_rethrows(op, msg) == Throw(msg)

\* The catch block of method op, entered with an error of message msg.
Catch(op, msg) == Return(Fail(msg, CatchMsg(op)))

\* The part of each method that follows the await of the store call `pc`,
\* whose promise resolved with `value`.
UserService_getAllUsers(value) == Return(Ok(value, "Users retrieved successfully"))

UserService_getUserStats(value) ==
  Return(Ok(Stats(value), "User statistics retrieved successfully"))

UserService_getUserById(value) ==
  IF ~value.found THEN Return(UserNotFound)
  ELSE Return(Ok(value.user, "User retrieved successfully"))

\* Mutant: the result of the email lookup is ignored.
UserService_createUser_noLookup(c, pc, value) ==
  IF pc = "findUserByEmail"
  THEN Await("createUser", 0, c.data)
  ELSE Return(Ok(value, "User created successfully"))

UserService_createUser(c, pc, value) ==
  IF pc = "findUserByEmail"
  THEN IF value.found
       THEN Return(Fail(DuplicateMsg, "Duplicate email address"))
       ELSE Await("createUser", 0, c.data)
  ELSE Return(Ok(value, "User created successfully"))

UserService_updateUser(c, pc, value) ==
  IF pc = "findUserById"
  THEN IF ~value.found THEN Return(UserNotFound)
       ELSE Await("updateUser", c.id, c.data)
  ELSE Return(Ok(value, "User updated successfully"))

\* Mutant: the success envelope carries the store's result as data.
UserService_deleteUser_withData(c, pc, value) ==
  IF pc = "findUserById"
  THEN IF ~value.found THEN Return(UserNotFound)
       ELSE Await("deleteUser", c.id, NoData)
  ELSE Return(Ok(value, "User deleted successfully"))

UserService_deleteUser(c, pc, value) ==
  IF pc = "findUserById"
  THEN IF ~value.found THEN Return(UserNotFound)
       ELSE Await("deleteUser", c.id, NoData)
  ELSE Return(OkNoData("User deleted successfully"))

\* The continuation of task c after the store call `pc` settled with `out`:
\* a rejection lands in the catch block of the method.
UserService_resume(c, pc, out) ==
  IF out.kind = "rejected" THEN Catch(c.op, out.error)
  ELSE CASE c.op = "getAllUsers" -> UserService_getAllUsers(out.value)
         [] c.op = "getUserStats" -> UserService_getUserStats(out.value)
         [] c.op = "getUserById" -> UserService_getUserById(out.value)
         [] c.op = "createUser" -> UserService_createUser(c, pc, out.value)
         [] c.op = "updateUser" -> UserService_updateUser(c, pc, out.value)
         [] c.op = "deleteUser" -> UserService_deleteUser(c, pc, out.value)

\* ------------------------------------------------------- UserController
\* A handler awaits the service and answers with res.status(..).json(..);
\* its value here is the sequence of the responses it sends.
Response(status, body) == [status |-> status, body |-> body]

\* {success: true, data: result.data, message: result.message}; JSON leaves
\* out a property whose value is undefined.
SuccessBody(result) ==
  [success |-> TRUE, message |-> result.message]
    @@ (IF "data" \in DOMAIN result THEN [data |-> result.data] ELSE <<>>)

FailureBody(result) ==
  [success |-> FALSE, error |-> result.error, message |-> result.message]

\* Mutant: the catch block sends nothing.
InternalError_silent(msg) == <<>>

\* catch (error) of every handler.
InternalError(msg) ==
  <<Response(500, [success |-> FALSE, error |-> msg,
                   message |-> "Internal server error"])>>

UserController_getAllUsers(outcome) ==
  IF outcome.kind = "rejected" THEN InternalError(outcome.error)
  ELSE LET result == outcome.value
       IN IF result.success THEN <<Response(200, SuccessBody(result))>>
          ELSE <<Response(500, FailureBody(result))>>

UserController_getUserById(outcome) ==
  IF outcome.kind = "rejected" THEN InternalError(outcome.error)
  ELSE LET result == outcome.value
       IN IF result.success THEN <<Response(200, SuccessBody(result))>>
          ELSE LET statusCode == IF result.error = "User not found" THEN 404 ELSE 400
               IN <<Response(statusCode, FailureBody(result))>>

UserController_createUser(outcome) ==
  IF outcome.kind = "rejected" THEN InternalError(outcome.error)
  ELSE LET result == outcome.value
       IN IF result.success THEN <<Response(201, SuccessBody(result))>>
          ELSE LET statusCode ==
                     IF result.error = "User with this email already exists"
                     THEN 409 ELSE 400
               IN <<Response(statusCode, FailureBody(result))>>

\* Mutant: the duplicate-email error is not told apart.
UserController_updateUser_no409(outcome) ==
  IF outcome.kind = "rejected" THEN InternalError(outcome.error)
  ELSE LET result == outcome.value
       IN IF result.success THEN <<Response(200, SuccessBody(result))>>
          ELSE LET statusCode == IF result.error = "User not found" THEN 404 ELSE 400
               IN <<Response(statusCode, FailureBody(result))>>

UserController_updateUser(outcome) ==
  IF outcome.kind = "rejected" THEN InternalError(outcome.error)
  ELSE LET result == outcome.value
       IN IF result.success THEN <<Response(200, SuccessBody(result))>>
          ELSE LET statusCode ==
                     IF result.error = "User not found" THEN 404
                     ELSE IF result.error = "User with this email already exists"
                          THEN 409 ELSE 400
               IN <<Response(statusCode, FailureBody(result))>>

UserController_deleteUser(outcome) ==
  IF outcome.kind = "rejected" THEN InternalError(outcome.error)
  ELSE LET result == outcome.value
       IN IF result.success
          THEN <<Response(200, [success |-> TRUE, message |-> result.message])>>
          ELSE LET statusCode == IF result.error = "User not found" THEN 404 ELSE 400
               IN <<Response(statusCode, FailureBody(result))>>

UserController_getUserStats(outcome) ==
  IF outcome.kind = "rejected" THEN InternalError(outcome.error)
  ELSE LET result == outcome.value
       IN IF result.success THEN <<Response(200, SuccessBody(result))>>
          ELSE <<Response(500, FailureBody(result))>>

\* The handler the router binds to the operation.
UserController_handle(op, outcome) ==
  CASE op = "getAllUsers" -> UserController_getAllUsers(outcome)
    [] op = "getUserStats" -> UserController_getUserStats(outcome)
    [] op = "getUserById" -> UserController_getUserById(outcome)
    [] op = "createUser" -> UserController_createUser(outcome)
    [] op = "updateUser" -> UserController_updateUser(outcome)
    [] op = "deleteUser" -> UserController_deleteUser(outcome)

\* ---------------------------------------------------------------- state
VARIABLES
  users,        \* Database.users, the Map
  isConnected,  \* Database.isConnected
  nextId,       \* the next value uuidv4() returns
  now,          \* the clock read by new Date()
  tasks,        \* every operation started so far, with its outcome
  timers        \* the pending setTimeout callbacks, in the order they were set

vars == <<users, isConnected, nextId, now, tasks, timers>>

Init ==
  /\ users = SeedUsers
  /\ isConnected = FALSE
  /\ nextId = 3
  /\ now = StartTime
  /\ tasks = <<>>
  /\ timers = <<>>

\* The callback of a store call, run on Map m.
DbCallback(call, m, uuid, t) ==
  CASE call.op = "findAllUsers" -> Database_findAllUsers(m)
    [] call.op = "findUserById" -> Database_findUserById(m, call.id)
    [] call.op = "findUserByEmail" -> Database_findUserByEmail(m, call.data.email)
    [] call.op = "createUser" -> Database_createUser(m, call.data, uuid, t)
    [] call.op = "updateUser" -> Database_updateUser(m, call.id, call.data, t)
    [] call.op = "deleteUser" -> Database_deleteUser(m, call.id)
    [] call.op = "clearAllData" -> Database_clearAllData(m)

CanStart == Len(tasks) < MaxTasks /\ Len(timers) < MaxPending

\* The operations already settled at the moment a new one is started
\* (recorded in the new task: what the caller can have awaited before).
Settled == {t \in 1..Len(tasks) : tasks[t].out.kind # "pending"}

Timer(tid, delay) == [tid |-> tid, left |-> delay, delay |-> delay]

\* Database.connect(): no check, the flag is set in the callback.
connect ==
  /\ CanStart
  /\ tasks' = Append(tasks, [layer |-> "db", op |-> "connect", calls |-> <<>>,
                             prior |-> Settled, out |-> Pending])
  /\ timers' = Append(timers, Timer(Len(tasks) + 1, ConnectDelay))
  /\ UNCHANGED <<users, isConnected, nextId, now>>

disconnect ==
  /\ CanStart
  /\ tasks' = Append(tasks, [layer |-> "db", op |-> "disconnect", calls |-> <<>>,
                             prior |-> Settled, out |-> Pending])
  /\ timers' = Append(timers, Timer(Len(tasks) + 1, DisconnectDelay))
  /\ UNCHANGED <<users, isConnected, nextId, now>>

\* Mutant: the isConnected check is missing.
DbStart_noCheck(call) ==
  /\ CanStart
  /\ tasks' = Append(tasks, [layer |-> "db", op |-> call.op, id |-> call.id,
                             data |-> call.data, cur |-> call, calls |-> <<call.op>>,
                             prior |-> Settled, out |-> Pending])
  /\ timers' = Append(timers, Timer(Len(tasks) + 1, DataDelay))
  /\ UNCHANGED <<users, isConnected, nextId, now>>

\* A data operation of the Database called directly: the isConnected check is
\* made at the call, the rest happens in the timer callback.
DbStart(call) ==
  /\ CanStart
  /\ LET task == [layer |-> "db", op |-> call.op, id |-> call.id, data |-> call.data,
                  cur |-> call, calls |-> <<call.op>>, prior |-> Settled,
                  out |-> Pending]
     IN IF ~isConnected
        THEN /\ tasks' = Append(tasks, [task EXCEPT !.out = Rejected(NotConnectedMsg)])
             /\ timers' = timers
        ELSE /\ tasks' = Append(tasks, task)
             /\ timers' = Append(timers, Timer(Len(tasks) + 1, DataDelay))
  /\ UNCHANGED <<users, isConnected, nextId, now>>

\* What a service task does with the result r of begin/resume: settle, or
\* call the store, which throws at once when not connected (the exception is
\* handled by the catch block of the method).
RECURSIVE Proceed(_, _, _)
Proceed(task, r, connected) ==
  CASE r.kind = "return" -> [task EXCEPT !.out = Resolved(r.envelope)]
    [] r.kind = "throw" -> [task EXCEPT !.out = Rejected(r.error)]
    [] r.kind = "await" ->
         LET called == [task EXCEPT !.calls = Append(@, r.call.op), !.cur = r.call]
         IN IF connected THEN called
            ELSE Proceed(called, Catch(task.op, NotConnectedMsg), connected)

\* A method of UserService is called.
SvcStart(c) ==
  /\ CanStart
  /\ LET task == [layer |-> "svc", op |-> c.op, id |-> c.id, data |-> c.data,
                  cur |-> [op |-> "none"], calls |-> <<>>, prior |-> Settled,
                  out |-> Pending]
         next == Proceed(task, UserService_begin(c), isConnected)
     IN /\ tasks' = Append(tasks, next)
        /\ timers' = IF next.out.kind = "pending"
                     THEN Append(timers, Timer(Len(tasks) + 1, DataDelay))
                     ELSE timers
  /\ UNCHANGED <<users, isConnected, nextId, now>>

Remove(seq, i) == SubSeq(seq, 1, i - 1) \o SubSeq(seq, i + 1, Len(seq))

\* Mutant: the callback of disconnect leaves the flag set.
Database_setConnected_always(op) == TRUE

\* The value that the callback of connect, or disconnect, gives isConnected.
Database_setConnected(op) == (op = "connect")

\* Mutant: no timer ever expires.
Due_never(i) == FALSE

\* Timers of one delay run in the order they were set.
Due(i) ==
  /\ timers[i].left = 0
  /\ \A j \in 1..(i - 1) : ~(timers[j].left = 0 /\ timers[j].delay = timers[i].delay)

\* A timer callback runs, followed by the continuation of the awaiting method
\* up to its return or its next store call.
Fire ==
  \E i \in 1..Len(timers) :
    /\ Due(i)
    /\ LET tid == timers[i].tid
           task == tasks[tid]
       IN IF task.op \in {"connect", "disconnect"}
          THEN /\ isConnected' = Database_setConnected(task.op)
               /\ tasks' = [tasks EXCEPT ![tid].out = Resolved(TRUE)]
               /\ timers' = Remove(timers, i)
               /\ UNCHANGED <<users, nextId>>
          ELSE LET res == DbCallback(task.cur, users, nextId, now)
                   next == IF task.layer = "db" THEN [task EXCEPT !.out = res.out]
                           ELSE Proceed(task,
                                        UserService_resume(task, task.cur.op, res.out),
                                        isConnected)
               IN /\ users' = res.users
                  /\ nextId' = IF task.cur.op = "createUser" /\ res.out.kind = "resolved"
                               THEN nextId + 1 ELSE nextId
                  /\ tasks' = [tasks EXCEPT ![tid] = next]
                  /\ timers' = IF next.out.kind = "pending"
                               THEN Append(Remove(timers, i), Timer(tid, DataDelay))
                               ELSE Remove(timers, i)
                  /\ UNCHANGED isConnected
    /\ UNCHANGED now

\* Time passes while no callback is due.
Tick ==
  /\ timers # <<>>
  /\ \A i \in 1..Len(timers) : timers[i].left > 0
  /\ timers' = [i \in 1..Len(timers) |-> [timers[i] EXCEPT !.left = @ - TickMs]]
  /\ now' = now + TickMs
  /\ UNCHANGED <<users, isConnected, nextId, tasks>>
\* ---------------------------------------------------------------- inputs
Al == <<"A", "l">>
Bo == <<" ", "B", " ">>
New == <<"n", "@", "x", ".", "y">>
Bad == <<"b", "a", "d">>
NoSuchId == 9
\* A date after every date the clock reaches.
Future == StartTime + DayMs

\* Request bodies of POST /users: valid with a new email, valid with the
\* email of a seed record, invalid in every field, valid and carrying an id.
CreatePayloads ==
  { [name |-> Al, email |-> New, age |-> 0],
    [name |-> Al, email |-> John, age |-> 150],
    [name |-> Bo, email |-> Bad, age |-> 151],
    [name |-> Al, email |-> New, age |-> 40, id |-> 1] }

\* Request bodies of PUT /users/:id that pass validateUpdateData.
Patches ==
  { <<>>,
    [age |-> 26],
    [name |-> Al],
    [email |-> Jane],
    [email |-> New],
    [id |-> 2, createdAt |-> Future] }

\* A request body of PUT /users/:id that fails validateUpdateData.
BadPatch == [age |-> 0 - 1]

\* '' (falsy), the first seed record, an unknown id.
IdArgs == {0, 1, NoSuchId}

Call(op, id, data) == [op |-> op, id |-> id, data |-> data]

SvcCalls ==
  {Call("getAllUsers", 0, NoData), Call("getUserStats", 0, NoData)}
  \cup {Call("getUserById", id, NoData) : id \in IdArgs}
  \cup {Call("createUser", 0, d) : d \in CreatePayloads}
  \cup {Call("updateUser", 1, d) : d \in Patches}
  \cup {Call("updateUser", id, d) : id \in IdArgs, d \in {[age |-> 26], BadPatch}}
  \cup {Call("deleteUser", id, NoData) : id \in IdArgs}

\* Arguments of direct calls of the Database.
DbCalls ==
  {Call("findAllUsers", 0, NoData), Call("clearAllData", 0, NoData)}
  \cup {Call("findUserById", id, NoData) : id \in {1, NoSuchId}}
  \cup {Call("findUserByEmail", 0, [email |-> e]) : e \in {John, New}}
  \cup {Call("createUser", 0, d) : d \in {[name |-> Al, email |-> New, age |-> 0],
                                          [name |-> Al, email |-> John, age |-> 150]}}
  \cup {Call("updateUser", id, d) : id \in {1, 2, NoSuchId},
                                    d \in {[age |-> 26], [email |-> Jane], [email |-> <<>>]}}
  \cup {Call("deleteUser", id, NoData) : id \in {1, NoSuchId}}

\* ------------------------------------------------------- specifications
\* The application: requests reach the store through the service.
Request == \E c \in SvcCalls : SvcStart(c)

Next == connect \/ disconnect \/ Request \/ Fire \/ Tick

Spec == Init /\ [][Next]_vars

\* The Database used on its own.
DbRequest == \E c \in DbCalls : DbStart(c)

NextStore == connect \/ disconnect \/ DbRequest \/ Fire \/ Tick

SpecStore == Init /\ [][NextStore]_vars

\* The UserController over a mocked service, which resolves with an envelope
\* or rejects.
Operations ==
  {"getAllUsers", "getUserById", "createUser", "updateUser", "deleteUser",
   "getUserStats"}

MockOutcomes ==
  {Rejected("Unexpected error"), Resolved(Ok(NoData, "done")),
   Resolved(OkNoData("done"))}
  \cup {Resolved(Fail(e, "failed")) :
          e \in {NotFoundMsg, DuplicateMsg, "Database error"}}

Handle(op, outcome) ==
  /\ Len(tasks) < MaxTasks
  /\ tasks' = Append(tasks, [layer |-> "http", op |-> op, out |-> outcome,
                             res |-> UserController_handle(op, outcome)])
  /\ UNCHANGED <<users, isConnected, nextId, now, timers>>

NextController == \E op \in Operations, outcome \in MockOutcomes : Handle(op, outcome)

SpecController == Init /\ [][NextController]_vars

\* The statistics over a store that requests fill and empty: the service
\* creates and deletes, the tests clear the store directly.
Cy == <<"c", "@", "x", ".", "y">>

StatsCalls ==
  {Call("getUserStats", 0, NoData), Call("deleteUser", 1, NoData),
   Call("createUser", 0, [name |-> Al, email |-> Cy, age |-> 35])}

StatsRequest == \E c \in StatsCalls : SvcStart(c)

ClearAll == DbStart(Call("clearAllData", 0, NoData))

NextStats == connect \/ StatsRequest \/ ClearAll \/ Fire \/ Tick

SpecStats == Init /\ [][NextStats]_vars

\* Creation payloads and patches that cover the validation: each field
\* missing, failing its check or passing it, and the ages around the bounds.
Fields == {"name", "email", "age"}
ValidUser == [name |-> Al, email |-> New, age |-> MinAge]
InvalidUser == [name |-> Bo, email |-> Bad, age |-> MaxAge + 1]
BoundaryAges == {MinAge - 1, MinAge, MaxAge, MaxAge + 1, NaN}

\* The object with the properties P, those of S failing their check.
Object(P, S) == [f \in P |-> IF f \in S THEN InvalidUser[f] ELSE ValidUser[f]]

ValidationPayloads ==
  {Object(Fields \ S, {}) : S \in SUBSET Fields}
  \cup {Object(Fields, S) : S \in SUBSET Fields}
  \cup {[ValidUser EXCEPT !.age = a] : a \in BoundaryAges}

ValidationPatches ==
  {Object(P, S \cap P) : P \in SUBSET Fields, S \in SUBSET Fields}
  \cup {[age |-> a] : a \in BoundaryAges}

CreateRequest == \E d \in ValidationPayloads : SvcStart(Call("createUser", 0, d))

NextCreate == connect \/ CreateRequest \/ Fire \/ Tick

SpecCreate == Init /\ [][NextCreate]_vars

PatchRequest == \E d \in ValidationPatches : SvcStart(Call("updateUser", 1, d))

NextPatch == connect \/ PatchRequest \/ Fire \/ Tick

SpecPatch == Init /\ [][NextPatch]_vars

\* Names around the bounds of the length: one and two characters after
\* trimming, MaxNameLen characters, and one more.
FullName == [i \in 1..MaxNameLen |-> "a"]
LongName == [i \in 1..(MaxNameLen + 1) |-> "a"]
Names == {Al, Bo, FullName, LongName}

NameCalls ==
  {Call("createUser", 0, [name |-> n, email |-> New, age |-> MinAge]) : n \in Names}
  \cup {Call("updateUser", 1, [name |-> n]) : n \in Names}

NameRequest == \E c \in NameCalls : SvcStart(c)

NextName == connect \/ NameRequest \/ Fire \/ Tick

SpecName == Init /\ [][NextName]_vars

\* Store operations started together, as Promise.all does: two creations
\* with different emails, two updates of different users.
ConcurrentCalls ==
  {Call("createUser", 0, [name |-> Al, email |-> New, age |-> 25]),
   Call("createUser", 0, [name |-> Al, email |-> Cy, age |-> 30]),
   Call("updateUser", 1, [age |-> 26]), Call("updateUser", 2, [age |-> 31])}

ConcurrentRequest == \E c \in ConcurrentCalls : DbStart(c)

NextConcurrent == connect \/ ConcurrentRequest \/ Fire \/ Tick

SpecConcurrent == Init /\ [][NextConcurrent]_vars

\* The event loop at work: a due timer is run, and time passes while timers
\* are waiting. Service and store operations, connect and disconnect are
\* started in any order.
LiveSvcCalls ==
  {Call("getAllUsers", 0, NoData), Call("deleteUser", 1, NoData),
   Call("createUser", 0, [name |-> Al, email |-> New, age |-> MinAge]),
   Call("updateUser", 1, [age |-> 26])}

LiveDbCalls ==
  {Call("findAllUsers", 0, NoData),
   Call("createUser", 0, [name |-> Al, email |-> Cy, age |-> 30])}

LiveRequest == \E c \in LiveSvcCalls : SvcStart(c)

LiveDbRequest == \E c \in LiveDbCalls : DbStart(c)

NextLive == connect \/ disconnect \/ LiveRequest \/ LiveDbRequest \/ Fire \/ Tick

SpecLive == Init /\ [][NextLive]_vars /\ WF_vars(Fire) /\ WF_vars(Tick)

\* Service requests racing for the same email and for the same record.
RaceCalls ==
  {Call("createUser", 0, [name |-> Al, email |-> New, age |-> 25]),
   Call("createUser", 0, [name |-> JohnDoe, email |-> New, age |-> 30]),
   Call("deleteUser", 1, NoData),
   Call("updateUser", 1, [name |-> Al]), Call("updateUser", 1, [age |-> 26])}

RaceRequest == \E c \in RaceCalls : SvcStart(c)

NextRace == connect \/ RaceRequest \/ Fire \/ Tick

SpecRace == Init /\ [][NextRace]_vars

\* ------------------------------------------------------ steps of a task
\* A callback (and continuation) of task t runs in this step.
Acts(t) == t \in 1..Len(tasks) /\ tasks'[t] # tasks[t]

\* Task t is started in this step.
Starts(t) == t = Len(tasks) + 1 /\ Len(tasks') = t

\* Task t settled with a service envelope.
Returned(t) == tasks[t].layer = "svc" /\ tasks[t].out.kind = "resolved"
Envelope(t) == tasks[t].out.value

\* The store callback `op` of service method `method` of task t runs in this step.
RunsCallback(t, method, op) ==
  /\ Acts(t)
  /\ tasks[t].layer = "svc" /\ tasks[t].op = method /\ tasks[t].cur.op = op

Succeeds(t) == tasks'[t].out.kind = "resolved" /\ tasks'[t].out.value.success

\* ----------------------------------------------------------------- claims

\* C1: in every reachable state of the store, no two stored user records
\* have the same email.
C1_UniqueEmail ==
  \A i, j \in 1..Len(users) :
    i # j => ~SameField(users[i].val, users[j].val, "email")

\* C2: a successful createUser with a payload that passed validation returns
\* a record whose id is non-empty and differs from the id of every other
\* stored record, and it replaces no record stored before.
C2_CreateAssignsFreshId ==
  [][\A t \in 1..Len(tasks) :
       RunsCallback(t, "createUser", "createUser") /\ Succeeds(t) =>
         LET rec == tasks'[t].out.value.data
         IN /\ rec.id # 0
            /\ \A i \in 1..Len(users) : users[i].val.id # rec.id
            /\ Len(users') = Len(users) + 1
            /\ \A i \in 1..Len(users) : users'[i] = users[i]]_vars

\* C3: a successful updateUser(id, patch) leaves the record's id and
\* createdAt as they were, and the record's id is the key it is stored under.
C3_UpdateKeepsIdAndCreatedAt ==
  [][\A t \in 1..Len(tasks) :
       RunsCallback(t, "updateUser", "updateUser") /\ Succeeds(t) =>
         LET old == MapGet(users, tasks[t].id)
             new == MapGet(users', tasks[t].id)
         IN /\ new.id = old.id
            /\ new.createdAt = old.createdAt
            /\ new.id = tasks[t].id]_vars

\* C4: every stored record has createdAt <= updatedAt.
C4_CreatedBeforeUpdated ==
  \A i \in 1..Len(users) : users[i].val.createdAt <= users[i].val.updatedAt
\* C5: when createUser consults the store (at its email lookup or at the
\* store's create) while a stored user already has the payload's email, it
\* returns success=false with error 'User with this email already exists',
\* and no record is added or modified.
C5_DuplicateEmailRejected ==
  [][\A t \in 1..Len(tasks) :
       /\ Acts(t)
       /\ tasks[t].layer = "svc" /\ tasks[t].op = "createUser"
       /\ FindByEmail(users, tasks[t].data) # 0
       => /\ tasks'[t].out.kind = "resolved"
          /\ tasks'[t].out.value.success = FALSE
          /\ tasks'[t].out.value.error = "User with this email already exists"
          /\ users' = users]_vars

C5_Witness ==
  \E t \in 1..Len(tasks) :
    /\ Returned(t) /\ tasks[t].op = "createUser"
    /\ tasks[t].data.email = John
    /\ Envelope(t) = Fail("User with this email already exists", "Duplicate email address")
    /\ users = SeedUsers

\* C6: every data operation of the store invoked while the store is
\* disconnected fails with 'Database not connected', sets no timer and
\* leaves the stored records unchanged.
C6_NotConnectedFails ==
  [][\A t \in 1..Len(tasks') :
       /\ Starts(t)
       /\ tasks'[t].layer = "db" /\ tasks'[t].op \notin {"connect", "disconnect"}
       /\ ~isConnected
       => /\ tasks'[t].out.kind = "rejected"
          /\ tasks'[t].out.error = "Database not connected"
          /\ timers' = timers
          /\ users' = users]_vars

C6_Witness ==
  /\ Len(tasks) = 3
  /\ tasks[1].op = "connect" /\ tasks[2].op = "disconnect"
  /\ tasks[3].op = "clearAllData" /\ tasks[3].prior = {1, 2}
  /\ tasks[3].out = Rejected("Database not connected")
  /\ users = SeedUsers

\* C7: a successful updateUser(id, patch) leaves every field absent from the
\* patch unchanged, sets every field of the patch to the patch's value, sets
\* updatedAt to the time of the update, returns the stored record and
\* touches no other record; with the empty patch only updatedAt changes.
C7_UpdateMergesPatch ==
  [][\A t \in 1..Len(tasks) :
       RunsCallback(t, "updateUser", "updateUser") /\ Succeeds(t) =>
         LET patch == tasks[t].data
             old == MapGet(users, tasks[t].id)
             new == MapGet(users', tasks[t].id)
         IN /\ DOMAIN new = DOMAIN old \cup DOMAIN patch
            /\ \A f \in DOMAIN old \ (DOMAIN patch \cup {"updatedAt"}) : new[f] = old[f]
            /\ \A f \in DOMAIN patch \ {"updatedAt"} : new[f] = patch[f]
            /\ new.updatedAt = now
            /\ tasks'[t].out.value.data = new
            /\ Len(users') = Len(users)
            /\ \A i \in 1..Len(users) :
                 users[i].key # tasks[t].id => users'[i] = users[i]]_vars

C7_Witness ==
  \E t \in 1..Len(tasks) :
    /\ Returned(t) /\ tasks[t].op = "updateUser" /\ tasks[t].data = <<>>
    /\ Envelope(t).success
    /\ MapHas(users, 1)
    /\ MapGet(users, 1).updatedAt > SeedDate1
    /\ MapGet(users, 1) = [SeedUsers[1].val EXCEPT !.updatedAt = MapGet(users, 1).updatedAt]
    /\ Envelope(t).data = MapGet(users, 1)

\* C8: a getUserById(id) called right after a deleteUser(id) that returned
\* success (every earlier operation settled, the store still connected)
\* returns the not-found envelope, the store's findUserById having found
\* nothing.
C8_DeletedIsNotFound ==
  \A j, k \in 1..Len(tasks) :
    /\ k = j + 1
    /\ Returned(j) /\ tasks[j].op = "deleteUser" /\ Envelope(j).success
    /\ Returned(k) /\ tasks[k].op = "getUserById" /\ tasks[k].id = tasks[j].id
    /\ tasks[k].prior = 1..j
    /\ ~(~Envelope(k).success /\ Envelope(k).error = "Database not connected")
    => /\ Envelope(k) = Fail("User not found", "User with the specified ID does not exist")
       /\ tasks[k].calls = <<"findUserById">>

C8_Witness ==
  \E j, k \in 1..Len(tasks) :
    /\ k = j + 1
    /\ Returned(j) /\ tasks[j].op = "deleteUser" /\ Envelope(j).success
    /\ Returned(k) /\ tasks[k].op = "getUserById" /\ tasks[k].id = tasks[j].id
    /\ tasks[k].prior = 1..j
    /\ Envelope(k).error = "User not found"
    /\ ~MapHas(users, tasks[j].id)

\* C9 (as stated): every envelope returned by the service has exactly one of
\* data and error: data when success is true, error when success is false.
C9_ExactlyOneOfDataError ==
  \A t \in 1..Len(tasks) :
    Returned(t) =>
      IF Envelope(t).success
      THEN "data" \in DOMAIN Envelope(t) /\ "error" \notin DOMAIN Envelope(t)
      ELSE "error" \in DOMAIN Envelope(t) /\ "data" \notin DOMAIN Envelope(t)

\* C9 (amended): an envelope with success false has error and no data; an
\* envelope with success true has no error, and has data unless it is the
\* envelope of deleteUser, which has neither data nor error.
C9_EnvelopeShape ==
  \A t \in 1..Len(tasks) :
    Returned(t) =>
      IF Envelope(t).success
      THEN /\ "error" \notin DOMAIN Envelope(t)
           /\ ("data" \in DOMAIN Envelope(t)) <=> (tasks[t].op # "deleteUser")
      ELSE "error" \in DOMAIN Envelope(t) /\ "data" \notin DOMAIN Envelope(t)

C9_Witness ==
  \E t \in 1..Len(tasks) :
    /\ Returned(t) /\ tasks[t].op = "deleteUser"
    /\ Envelope(t).success
    /\ DOMAIN Envelope(t) = {"success", "message"}

\* The fixed message of each operation, as the claim C10 lists them.
C10_Message(op) ==
  CASE op = "getAllUsers" -> "Failed to retrieve users"
    [] op = "getUserById" -> "Failed to retrieve user"
    [] op = "createUser" -> "Failed to create user"
    [] op = "updateUser" -> "Failed to update user"
    [] op = "deleteUser" -> "Failed to delete user"
    [] op = "getUserStats" -> "Failed to retrieve user statistics"

\* C10: no service operation ever rejects; whenever a store call fails (it
\* is invoked while the store is disconnected, or its promise rejects) the
\* operation returns success=false with the failure's message as error and
\* the fixed message of the operation.
C10_ServiceNeverThrows ==
  [][\A t \in 1..Len(tasks') :
       tasks'[t].layer = "svc" =>
         /\ tasks'[t].out.kind # "rejected"
         /\ (Acts(t) /\ DbCallback(tasks[t].cur, users, nextId, now).out.kind = "rejected")
              => tasks'[t].out =
                   Resolved([success |-> FALSE,
                             error |-> DbCallback(tasks[t].cur, users, nextId, now).out.error,
                             message |-> C10_Message(tasks[t].op)])
         /\ ((Acts(t) \/ Starts(t)) /\ ~isConnected
              /\ Len(tasks'[t].calls) > (IF Starts(t) THEN 0 ELSE Len(tasks[t].calls)))
              => tasks'[t].out =
                   Resolved([success |-> FALSE,
                             error |-> "Database not connected",
                             message |-> C10_Message(tasks'[t].op)])]_vars

C10_Witness ==
  \E t, u \in 1..Len(tasks) :
    /\ Returned(t) /\ tasks[t].op = "updateUser"
    /\ Envelope(t) = Fail("User not found", "Failed to update user")
    /\ Returned(u) /\ tasks[u].op = "deleteUser" /\ Envelope(u).success
\* C11: getUserById, updateUser and deleteUser called with a falsy id return
\* success=false, error 'User ID is required', message 'Invalid input', and
\* make no call to the store.
C11_FalsyIdRejected ==
  \A t \in 1..Len(tasks) :
    /\ tasks[t].layer = "svc"
    /\ tasks[t].op \in {"getUserById", "updateUser", "deleteUser"}
    /\ tasks[t].id = 0
    => /\ tasks[t].out = Resolved([success |-> FALSE, error |-> "User ID is required",
                                   message |-> "Invalid input"])
       /\ tasks[t].calls = <<>>

C11_Witness ==
  /\ Len(tasks) = 3
  /\ {tasks[t].op : t \in 1..3} = {"getUserById", "updateUser", "deleteUser"}
  /\ \A t \in 1..3 : tasks[t].id = 0 /\ Returned(t) /\ tasks[t].calls = <<>>
  /\ timers = <<>> /\ users = SeedUsers

\* C12: createUser validates, then looks the email up, then creates: when
\* validation fails the store is not called at all, and when the lookup finds
\* a user with the email the store's createUser is not called.
C12_CreateOrder ==
  [][\A t \in 1..Len(tasks') :
       tasks'[t].layer = "svc" /\ tasks'[t].op = "createUser" =>
         /\ tasks'[t].calls \in {<<>>, <<"findUserByEmail">>,
                                 <<"findUserByEmail", "createUser">>}
         /\ ~validateUserData(tasks'[t].data).isValid =>
              /\ tasks'[t].calls = <<>>
              /\ tasks'[t].out.kind = "resolved"
              /\ tasks'[t].out.value.message = "Validation failed"
         /\ (RunsCallback(t, "createUser", "findUserByEmail")
               /\ FindByEmail(users, tasks[t].data) # 0) =>
              /\ tasks'[t].calls = <<"findUserByEmail">>
              /\ tasks'[t].out.kind = "resolved"
              /\ tasks'[t].out.value.message = "Duplicate email address"]_vars

C12_Witness ==
  \E t, u \in 1..Len(tasks) :
    /\ Returned(t) /\ tasks[t].op = "createUser"
    /\ Envelope(t).message = "Validation failed" /\ tasks[t].calls = <<>>
    /\ Returned(u) /\ tasks[u].op = "createUser"
    /\ Envelope(u).message = "Duplicate email address"
    /\ tasks[u].calls = <<"findUserByEmail">>

\* C13: updateUser validates the patch before it checks that the user
\* exists: with a non-falsy id and a patch that fails validation the result
\* is the validation-failed envelope and the store is not called, also when
\* no user has the id.
C13_UpdateValidatesFirst ==
  \A t \in 1..Len(tasks) :
    /\ tasks[t].layer = "svc" /\ tasks[t].op = "updateUser"
    /\ tasks[t].id # 0
    /\ ~validateUpdateData(tasks[t].data).isValid
    => /\ tasks[t].out.kind = "resolved"
       /\ ~Envelope(t).success
       /\ Envelope(t).message = "Validation failed"
       /\ Envelope(t).error # "User not found"
       /\ tasks[t].calls = <<>>

C13_Witness ==
  \E t \in 1..Len(tasks) :
    /\ isConnected
    /\ tasks[t].layer = "svc" /\ tasks[t].op = "updateUser"
    /\ tasks[t].id = NoSuchId /\ ~MapHas(users, NoSuchId)
    /\ tasks[t].data = BadPatch
    /\ Envelope(t) = Fail("Age must be a number between 0 and 150", "Validation failed")
    /\ tasks[t].calls = <<>>
\* C14: for every envelope the service returns, the controller sends one
\* response whose status is given by the table (200, 201 for create, on
\* success; on failure 500 for list and stats, 404 for getById, update and
\* delete exactly when the error is 'User not found', 409 for create and
\* update exactly when the error is 'User with this email already exists',
\* 400 otherwise) and whose body carries the envelope's success, error or
\* data, and message unchanged.
C14_Status(op, e) ==
  IF e.success THEN (IF op = "createUser" THEN 201 ELSE 200)
  ELSE IF op \in {"getAllUsers", "getUserStats"} THEN 500
  ELSE IF op \in {"getUserById", "updateUser", "deleteUser"}
          /\ e.error = "User not found" THEN 404
  ELSE IF op \in {"createUser", "updateUser"}
          /\ e.error = "User with this email already exists" THEN 409
  ELSE 400

C14_StatusTable ==
  \A t \in 1..Len(tasks) :
    Returned(t) =>
      LET res == UserController_handle(tasks[t].op, tasks[t].out)
          e == Envelope(t)
      IN /\ Len(res) = 1
         /\ res[1].status = C14_Status(tasks[t].op, e)
         /\ DOMAIN res[1].body = DOMAIN e
         /\ \A f \in DOMAIN e : res[1].body[f] = e[f]

C14_Witness ==
  \E t, u \in 1..Len(tasks) :
    /\ Returned(t) /\ tasks[t].op = "updateUser"
    /\ UserController_handle("updateUser", tasks[t].out)[1].status = 409
    /\ Returned(u) /\ tasks[u].op = "getUserById"
    /\ UserController_handle("getUserById", tasks[u].out)[1].status = 404

\* C15: when the service call rejects, every handler sends exactly one
\* response: status 500 with success=false, error = the exception's message
\* and message 'Internal server error'.
C15_RejectionIs500 ==
  \A t \in 1..Len(tasks) :
    tasks[t].layer = "http" /\ tasks[t].out.kind = "rejected" =>
      tasks[t].res = <<[status |-> 500,
                        body |-> [success |-> FALSE, error |-> tasks[t].out.error,
                                  message |-> "Internal server error"]]>>

C15_Witness ==
  /\ Len(tasks) = 3
  /\ \A t \in 1..3 : tasks[t].layer = "http" /\ tasks[t].out = Rejected("Unexpected error")
  /\ {tasks[t].op : t \in 1..3} = {"getAllUsers", "createUser", "deleteUser"}
  /\ \A t \in 1..3 : Len(tasks[t].res) = 1 /\ tasks[t].res[1].status = 500

\* C16: when the store runs the update of an existing user whose patch sets
\* email to the email that a different stored user has, the request ends
\* with status 409, error 'User with this email already exists' and the
\* envelope message 'Failed to update user', and no record changes.
C16_UpdateToTakenEmail ==
  [][\A t \in 1..Len(tasks) :
       (/\ RunsCallback(t, "updateUser", "updateUser")
        /\ MapHas(users, tasks[t].id)
        /\ "email" \in DOMAIN tasks[t].data
        /\ \E i \in 1..Len(users) :
             /\ users[i].key # tasks[t].id
             /\ users[i].val.email = tasks[t].data.email)
       => /\ tasks'[t].out = Resolved([success |-> FALSE,
                                       error |-> "User with this email already exists",
                                       message |-> "Failed to update user"])
          /\ UserController_handle("updateUser", tasks'[t].out) =
               <<[status |-> 409,
                  body |-> [success |-> FALSE,
                            error |-> "User with this email already exists",
                            message |-> "Failed to update user"]]>>
          /\ users' = users]_vars

C16_Witness ==
  \E t \in 1..Len(tasks) :
    /\ Returned(t) /\ tasks[t].op = "updateUser" /\ tasks[t].id = 1
    /\ tasks[t].data = [email |-> Jane]
    /\ Envelope(t) = Fail(DuplicateMsg, "Failed to update user")
    /\ tasks[t].calls = <<"findUserById", "updateUser">>
    /\ users = SeedUsers
\* C17: getUserStats returns, for the listing it read, totalUsers = the
\* number of records, youngestUser = the minimum age, oldestUser = the
\* maximum age and averageAge = the sum of the ages divided by the count;
\* with no users all four are 0.
RECURSIVE C17_Total(_, _)
C17_Total(m, n) == IF n = 0 THEN 0 ELSE C17_Total(m, n - 1) + m[n].val.age

C17_StatsOfListing ==
  [][\A t \in 1..Len(tasks) :
       RunsCallback(t, "getUserStats", "findAllUsers") /\ Succeeds(t) =>
         LET s == tasks'[t].out.value.data
             n == Len(users)
             ages == {users[i].val.age : i \in 1..n}
         IN /\ DOMAIN s = {"totalUsers", "averageAge", "youngestUser", "oldestUser"}
            /\ s.totalUsers = n
            /\ n = 0 => /\ s.youngestUser = 0 /\ s.oldestUser = 0
                        /\ s.averageAge.num = 0 /\ s.averageAge.den # 0
            /\ n > 0 => /\ s.youngestUser \in ages /\ \A a \in ages : s.youngestUser <= a
                        /\ s.oldestUser \in ages /\ \A a \in ages : s.oldestUser >= a
                        /\ s.averageAge.den # 0
                        /\ s.averageAge.num * n = C17_Total(users, n) * s.averageAge.den]_vars

C17_Witness ==
  \E t \in 1..Len(tasks) :
    /\ Returned(t) /\ tasks[t].op = "getUserStats" /\ Envelope(t).success
    /\ Envelope(t).data.totalUsers = 3
    /\ Envelope(t).data.youngestUser = 25 /\ Envelope(t).data.oldestUser = 35
    /\ Envelope(t).data.averageAge = [num |-> 90, den |-> 3]
    /\ Len(users) = 3
\* C18: createUser with an otherwise valid payload accepts the age exactly
\* when it is a number with 0 <= age <= 150: such a payload is not refused
\* by the validation and its record is stored with that age; any other age
\* is rejected with 'Age must be a number between 0 and 150' and the store
\* is not called.
C18_AgeBoundaries ==
  \A t \in 1..Len(tasks) :
    /\ tasks[t].layer = "svc" /\ tasks[t].op = "createUser"
    /\ "name" \in DOMAIN tasks[t].data /\ tasks[t].data.name = Al
    /\ "email" \in DOMAIN tasks[t].data /\ tasks[t].data.email = New
    => LET d == tasks[t].data
           inRange == "age" \in DOMAIN d /\ d.age # NaN /\ 0 <= d.age /\ d.age <= 150
       IN IF inRange
          THEN Returned(t) =>
                 /\ Envelope(t).message # "Validation failed"
                 /\ Envelope(t).success =>
                      /\ Envelope(t).data.age = d.age
                      /\ \E i \in 1..Len(users) : users[i].val = Envelope(t).data
          ELSE /\ tasks[t].out =
                    Resolved([success |-> FALSE,
                              error |-> "Age must be a number between 0 and 150",
                              message |-> "Validation failed"])
               /\ tasks[t].calls = <<>>

\* C19: validateUserData lists its messages in the order name, email, age,
\* reports a missing field as invalid, and is valid exactly when the list is
\* empty; the error of a createUser that fails validation is the messages
\* joined with ', ' (all three for the empty payload).
C19_Messages ==
  [name |-> "Name must be at least 2 characters long",
   email |-> "Valid email is required",
   age |-> "Age must be a number between 0 and 150"]

C19_Joined(errors) ==
  IF Len(errors) = 1 THEN errors[1]
  ELSE IF Len(errors) = 2 THEN errors[1] \o ", " \o errors[2]
  ELSE errors[1] \o ", " \o errors[2] \o ", " \o errors[3]

C19_ValidationMessages ==
  \A t \in 1..Len(tasks) :
    tasks[t].layer = "svc" /\ tasks[t].op = "createUser" =>
      LET d == tasks[t].data
          v == validateUserData(d)
          listed(f) == \E k \in 1..Len(v.errors) : v.errors[k] = C19_Messages[f]
          inOrder == (IF listed("name") THEN <<C19_Messages.name>> ELSE <<>>)
                     \o (IF listed("email") THEN <<C19_Messages.email>> ELSE <<>>)
                     \o (IF listed("age") THEN <<C19_Messages.age>> ELSE <<>>)
      IN /\ v.errors = inOrder
         /\ \A f \in Fields \ DOMAIN d : listed(f)
         /\ v.isValid <=> v.errors = <<>>
         /\ ~v.isValid =>
              tasks[t].out = Resolved([success |-> FALSE, error |-> C19_Joined(v.errors),
                                       message |-> "Validation failed"])
         /\ v.isValid /\ Returned(t) => Envelope(t).message # "Validation failed"

C19_Witness ==
  \E t, u \in 1..Len(tasks) :
    /\ tasks[t].layer = "svc" /\ tasks[t].op = "createUser" /\ tasks[t].data = <<>>
    /\ Envelope(t).error =
         "Name must be at least 2 characters long, Valid email is required, Age must be a number between 0 and 150"
    /\ tasks[u].layer = "svc" /\ tasks[u].data = [name |-> Al, email |-> Bad, age |-> MaxAge + 1]
    /\ Envelope(u).error = "Valid email is required, Age must be a number between 0 and 150"

\* C20: validateUpdateData reports the message of a field if and only if the
\* field is present in the patch and its value fails the check that
\* validateUserData makes of that field, so a patch whose present fields are
\* all valid, the empty patch among them, is valid.
C20_PatchChecksPresentFields ==
  \A t \in 1..Len(tasks) :
    tasks[t].layer = "svc" /\ tasks[t].op = "updateUser" /\ tasks[t].id # 0 =>
      LET p == tasks[t].data
          v == validateUpdateData(p)
          listed(errors, f) == \E k \in 1..Len(errors) : errors[k] = C19_Messages[f]
          failsCreation(f) ==
            listed(validateUserData([ValidUser EXCEPT ![f] = p[f]]).errors, f)
      IN /\ \A f \in Fields : listed(v.errors, f) <=> (f \in DOMAIN p /\ failsCreation(f))
         /\ Len(v.errors) <= Cardinality(DOMAIN p)
         /\ v.isValid <=> v.errors = <<>>
         /\ (Returned(t) /\ Envelope(t).message = "Validation failed") <=> ~v.isValid

C20_Witness ==
  \E t, u \in 1..Len(tasks) :
    /\ Returned(t) /\ tasks[t].op = "updateUser" /\ tasks[t].data = <<>>
    /\ Envelope(t).success
    /\ Returned(u) /\ tasks[u].op = "updateUser"
    /\ tasks[u].data = [name |-> Al, age |-> MaxAge + 1]
    /\ Envelope(u) = Fail("Age must be a number between 0 and 150", "Validation failed")
\* C21: every record stored through createUser or updateUser of the service
\* has a name of 2 to 100 characters after trimming, and a payload or patch
\* whose trimmed name is shorter than 2 or longer than 100 characters is
\* rejected with a validation error.
C21_NameLength ==
  /\ \A i \in 1..Len(users) :
       /\ 2 <= Len(Trim(users[i].val.name))
       /\ Len(Trim(users[i].val.name)) <= 100
  /\ \A t \in 1..Len(tasks) :
       /\ tasks[t].layer = "svc" /\ tasks[t].op \in {"createUser", "updateUser"}
       /\ "name" \in DOMAIN tasks[t].data
       /\ (Len(Trim(tasks[t].data.name)) < 2 \/ Len(Trim(tasks[t].data.name)) > 100)
       => /\ Returned(t) /\ ~Envelope(t).success
          /\ Envelope(t).message = "Validation failed"
\* C22: store operations started concurrently are safe: a createUser whose
\* email is not stored succeeds with an id that no record and no other
\* creation has, and adds its record only; an updateUser applies its patch to
\* its own user and leaves every other record as it was.
C22_ConcurrentStoreCalls ==
  [][\A t \in 1..Len(tasks) :
       Acts(t) /\ tasks[t].layer = "db" =>
         /\ (tasks[t].op = "createUser" /\ FindByEmail(users, tasks[t].data) = 0) =>
              /\ tasks'[t].out.kind = "resolved"
              /\ ~MapHas(users, tasks'[t].out.value.id)
              /\ \A u \in 1..Len(tasks) :
                   (u # t /\ tasks[u].op = "createUser" /\ tasks[u].out.kind = "resolved")
                   => tasks[u].out.value.id # tasks'[t].out.value.id
              /\ users' = Append(users, [key |-> tasks'[t].out.value.id,
                                         val |-> tasks'[t].out.value])
              /\ tasks'[t].out.value.email = tasks[t].data.email
         /\ tasks[t].op = "updateUser" =>
              /\ tasks'[t].out.kind = "resolved"
              /\ tasks'[t].out.value.age = tasks[t].data.age
              /\ Len(users') = Len(users)
              /\ \A k \in 1..Len(users) :
                   IF users[k].key = tasks[t].id
                   THEN users'[k] = [key |-> tasks[t].id, val |-> tasks'[t].out.value]
                   ELSE users'[k] = users[k]]_vars

\* Two creations in flight together have both succeeded.
C22_Witness ==
  \E t, u \in 1..Len(tasks) :
    /\ t < u /\ t \notin tasks[u].prior
    /\ tasks[t].op = "createUser" /\ tasks[u].op = "createUser"
    /\ tasks[t].out.kind = "resolved" /\ tasks[u].out.kind = "resolved"
    /\ tasks[t].out.value.email # tasks[u].out.value.email
    /\ tasks[t].out.value.id # tasks[u].out.value.id
    /\ MapHas(users, tasks[t].out.value.id) /\ MapHas(users, tasks[u].out.value.id)
\* C23: every operation of the store or the service that has been started
\* eventually completes, with a result or with a failure, whatever else is in
\* flight and also when the store is disconnected meanwhile.
C23_EveryOperationCompletes ==
  \A t \in 1..MaxTasks :
    (t <= Len(tasks) /\ tasks[t].out.kind = "pending")
      ~> (t <= Len(tasks) /\ tasks[t].out.kind # "pending")

\* A creation whose store was disconnected between its lookup and its
\* create has completed, with the failure.
C23_Witness ==
  \E t, d \in 1..Len(tasks) :
    /\ d < t /\ tasks[d].op = "disconnect" /\ d \notin tasks[t].prior
    /\ Returned(t) /\ tasks[t].op = "createUser"
    /\ tasks[t].calls = <<"findUserByEmail", "createUser">>
    /\ Envelope(t) = Fail(NotConnectedMsg, "Failed to create user")
    /\ timers = <<>>
\* C24: a new store is disconnected and holds the two seed records; when a
\* connect() resolves the store is connected and its records are as before
\* (also when it was connected already), so that findAllUsers then returns
\* exactly the two seed records; when a disconnect() resolves the store is
\* disconnected.
C24_ConnectionLifecycle ==
  /\ ~isConnected
  /\ Len(users) = 2
  /\ users[1].val.email = John /\ users[2].val.email = Jane
  /\ [][\A t \in 1..Len(tasks) :
          Acts(t) /\ tasks[t].layer = "db" =>
            /\ tasks[t].op = "connect" =>
                 /\ tasks'[t].out.kind = "resolved"
                 /\ isConnected' /\ users' = users
            /\ tasks[t].op = "disconnect" =>
                 /\ tasks'[t].out.kind = "resolved"
                 /\ ~isConnected' /\ users' = users
            /\ (tasks[t].op = "findAllUsers" /\ users = SeedUsers) =>
                 /\ tasks'[t].out.kind = "resolved"
                 /\ Len(tasks'[t].out.value) = 2
                 /\ tasks'[t].out.value[1] = users[1].val
                 /\ tasks'[t].out.value[2] = users[2].val]_vars

\* connect() has resolved twice, the second called after the first, and
\* findAllUsers has then returned the two seed records.
C24_Witness ==
  \E c, d, f \in 1..Len(tasks) :
    /\ tasks[c].op = "connect" /\ tasks[d].op = "connect" /\ c \in tasks[d].prior
    /\ tasks[d].out.kind = "resolved"
    /\ tasks[f].op = "findAllUsers" /\ tasks[f].layer = "db" /\ d \in tasks[f].prior
    /\ tasks[f].out = Resolved(<<SeedUsers[1].val, SeedUsers[2].val>>)
    /\ isConnected
\* C25: the stored records are never changed while the store is
\* disconnected: whenever the Map changes, isConnected is true.
C25_NoChangeWhileDisconnected ==
  [][users' # users => isConnected]_vars

\* C26: when calls of connect() and disconnect() overlap, the state once all
\* of them have resolved is the one requested by the call made last.
C26_LastCallWins ==
  LET calls == {t \in 1..Len(tasks) : tasks[t].op \in {"connect", "disconnect"}}
      last == CHOOSE t \in calls : \A u \in calls : u <= t
  IN (calls # {} /\ \A t \in calls : tasks[t].out.kind = "resolved")
     => isConnected = (tasks[last].op = "connect")
\* Service task t has returned, and not because the store was disconnected.
Answered(t, op) ==
  /\ Returned(t) /\ tasks[t].op = op
  /\ Envelope(t).success \/ Envelope(t).error # "Database not connected"

\* C27: of the createUser calls of the service that carry the same new email,
\* at most one returns success=true, the email is stored exactly once as soon
\* as one of them has returned, and every other one returns success=false
\* with error 'User with this email already exists', which the controller
\* answers with 409, whether it lost at the lookup or at the store's create.
C27_OneCreationWins ==
  LET answered == {t \in 1..Len(tasks) : Answered(t, "createUser")}
      won == {t \in answered : Envelope(t).success}
      stored == {i \in 1..Len(users) : users[i].val.email = New}
  IN /\ Cardinality(won) <= 1
     /\ Cardinality(stored) = Cardinality(won)
     /\ answered # {} => Cardinality(won) = 1
     /\ \A t \in answered \ won :
          /\ Envelope(t).error = "User with this email already exists"
          /\ UserController_handle("createUser", tasks[t].out)[1].status = 409

\* Two creations in flight together: one has won, the other has lost at the
\* store's create.
C27_Witness ==
  \E t, u \in 1..Len(tasks) :
    /\ t < u /\ t \notin tasks[u].prior
    /\ Answered(t, "createUser") /\ Answered(u, "createUser")
    /\ Envelope(t).success /\ ~Envelope(u).success
    /\ tasks[u].calls = <<"findUserByEmail", "createUser">>
    /\ Envelope(u) = Fail(DuplicateMsg, "Failed to create user")

\* C28: of the deleteUser calls of the service for the same existing id
\* exactly one returns success=true and every other one returns success=false
\* with error 'User not found', answered with 404; after the successful one
\* the record is absent for good, an updateUser racing with it included.
C28_OneDeletionWins ==
  LET answered == {t \in 1..Len(tasks) : Answered(t, "deleteUser")}
      won == {t \in answered : Envelope(t).success}
  IN /\ Cardinality(won) <= 1
     /\ answered # {} => Cardinality(won) = 1
     /\ won # {} => ~MapHas(users, 1)
     /\ won = {} => MapHas(users, 1)
     /\ \A t \in answered \ won :
          /\ Envelope(t).error = "User not found"
          /\ UserController_handle("deleteUser", tasks[t].out)[1].status = 404

\* Two deletions in flight together: one has won, the other has lost at the
\* store's delete.
C28_Witness ==
  \E t, u \in 1..Len(tasks) :
    /\ t < u /\ t \notin tasks[u].prior
    /\ Answered(t, "deleteUser") /\ Answered(u, "deleteUser")
    /\ Envelope(t).success /\ ~Envelope(u).success
    /\ tasks[u].calls = <<"findUserById", "deleteUser">>
    /\ Envelope(u) = Fail(NotFoundMsg, "Failed to delete user")
    /\ ~MapHas(users, 1)

\* C29: no update is lost: when two updateUser calls on the same user with
\* patches over disjoint fields have both succeeded, the stored record has
\* the values of both patches.
C29_NoLostUpdate ==
  \A t, u \in 1..Len(tasks) :
    (/\ Answered(t, "updateUser") /\ Answered(u, "updateUser")
     /\ Envelope(t).success /\ Envelope(u).success
     /\ tasks[t].id = tasks[u].id
     /\ DOMAIN tasks[t].data \cap DOMAIN tasks[u].data = {}
     /\ MapHas(users, tasks[t].id))
    => \A f \in DOMAIN tasks[t].data : MapGet(users, tasks[t].id)[f] = tasks[t].data[f]

\* Two updates in flight together, of the name and of the age, have both
\* succeeded.
C29_Witness ==
  \E t, u \in 1..Len(tasks) :
    /\ t \notin tasks[u].prior /\ u \notin tasks[t].prior
    /\ Answered(t, "updateUser") /\ Answered(u, "updateUser")
    /\ Envelope(t).success /\ Envelope(u).success
    /\ tasks[t].data = [name |-> Al] /\ tasks[u].data = [age |-> 26]
    /\ MapGet(users, 1).name = Al /\ MapGet(users, 1).age = 26
\* C30: a service operation that returns success=false, and every read
\* operation (getAllUsers, getUserById, getUserStats), leaves the records of
\* the store as they are: at its call and in each of its steps the Map
\* changes only in the step in which a createUser, updateUser or deleteUser
\* returns success=true.
C30_FailuresAndReadsChangeNothing ==
  [][\A t \in 1..Len(tasks') :
       (/\ tasks'[t].layer = "svc" /\ (Starts(t) \/ Acts(t))
        /\ \/ tasks'[t].op \in {"getAllUsers", "getUserById", "getUserStats"}
           \/ tasks'[t].out.kind = "pending"
           \/ ~tasks'[t].out.value.success)
       => users' = users]_vars

\* An update refused by the store and a listing have returned; the records
\* are the seed records.
C30_Witness ==
  \E t, v \in 1..Len(tasks) :
    /\ Returned(t) /\ tasks[t].op = "updateUser"
    /\ tasks[t].calls = <<"findUserById", "updateUser">>
    /\ Envelope(t) = Fail(DuplicateMsg, "Failed to update user")
    /\ Returned(v) /\ tasks[v].op = "getAllUsers" /\ Envelope(v).success
    /\ users = SeedUsers
====
